---- MODULE Spec2Model ----
(***************************************************************************)
(* Model of install.py: the environment detector (EnvironmentDetector),    *)
(* the toolchain check (check_rust_installed), the dispatcher              *)
(* (run_installer) and main.                                               *)
(*                                                                         *)
(* Python strings that the code searches or lower-cases are sequences of   *)
(* one-character strings, so that `x in s` and s.lower() are computed.     *)
(* Command-line tokens, which the code only compares whole, are strings.   *)
(* os.environ is a function from variable names to values; a variable is   *)
(* present when its name is in the function's domain.                      *)
(***************************************************************************)
EXTENDS Integers, Sequences, FiniteSets, TLC

VARIABLES environ, host, argv, args, pc, detectors, subprocesses, chmods,
          script_dir, stdout, returned, exit_status

vars == <<environ, host, argv, args, pc, detectors, subprocesses, chmods,
          script_dir, stdout, returned, exit_status>>

(* ---------------------------------------------------------------------- *)
(* Strings                                                                *)
(* ---------------------------------------------------------------------- *)
UpperLetters == <<"A","B","C","D","E","F","G","H","I","J","K","L","M",
                  "N","O","P","Q","R","S","T","U","V","W","X","Y","Z">>
LowerLetters == <<"a","b","c","d","e","f","g","h","i","j","k","l","m",
                  "n","o","p","q","r","s","t","u","v","w","x","y","z">>

IsUpper(c) == \E i \in DOMAIN UpperLetters : UpperLetters[i] = c
IsLetter(c) == IsUpper(c) \/ \E i \in DOMAIN LowerLetters : LowerLetters[i] = c

LowerChar(c) ==
    IF IsUpper(c)
    THEN LowerLetters[CHOOSE i \in DOMAIN UpperLetters : UpperLetters[i] = c]
    ELSE c

\* str.lower()
Lower(s) == [i \in 1..Len(s) |-> LowerChar(s[i])]

\* sub in s, for strings
Contains(sub, s) ==
    \E i \in 0..(Len(s) - Len(sub)) : SubSeq(s, i + 1, i + Len(sub)) = sub

\* x in xs, for lists
InList(x, xs) == \E i \in DOMAIN xs : xs[i] = x

\* os.environ.get(name, "")
Get(e, name) == IF name \in DOMAIN e THEN e[name] ELSE <<>>

\* list.remove(x): drops the first element equal to x
ListRemove(xs, x) ==
    LET i == CHOOSE k \in DOMAIN xs : xs[k] = x /\ \A j \in 1..(k - 1) : xs[j] # x
    IN SubSeq(xs, 1, i - 1) \o SubSeq(xs, i + 1, Len(xs))

s_microsoft == <<"m", "i", "c", "r", "o", "s", "o", "f", "t">>
s_MINGW == <<"M", "I", "N", "G", "W">>
s_mingw_dir == <<"/", "m", "i", "n", "g", "w">>
s_cygwin_dir == <<"/", "c", "y", "g", "w", "i", "n">>
s_Git == <<"G", "i", "t">>
s_vscode == <<"v", "s", "c", "o", "d", "e">>
s_windows_terminal == <<"w", "i", "n", "d", "o", "w", "s", "_", "t", "e", "r", "m", "i", "n", "a", "l">>
s_conemu == <<"c", "o", "n", "e", "m", "u">>
s_mintty == <<"m", "i", "n", "t", "t", "y">>
s_unknown == <<"u", "n", "k", "n", "o", "w", "n">>
s_utf == <<"u", "t", "f">>
s_UTF8 == <<"U", "T", "F", "-", "8">>
s_utf8 == <<"u", "t", "f", "8">>
s_backslash == <<"\\">>
s_bash == <<"b", "a", "s", "h">>
s_zsh == <<"z", "s", "h">>
s_fish == <<"f", "i", "s", "h">>
s_windows == <<"w", "i", "n", "d", "o", "w", "s">>

v_Linux == <<"L", "i", "n", "u", "x">>
v_Darwin == <<"D", "a", "r", "w", "i", "n">>
v_sh_sh == <<"/", "b", "i", "n", "/", "s", "h">>
v_sh_both == <<"/", "z", "s", "h", "/", "b", "a", "s", "h">>
v_Windows == <<"W", "i", "n", "d", "o", "w", "s">>
v_proc_wsl == <<"L", "i", "n", "u", "x", " ", "5", ".", "1", "5", " ", "M", "i", "c", "r", "o", "s", "o", "f", "t">>
v_proc_native == <<"L", "i", "n", "u", "x", " ", "6", ".", "1", " ", "g", "c", "c">>
v_MINGW64 == <<"M", "I", "N", "G", "W", "6", "4">>
v_MSYS == <<"M", "S", "Y", "S">>
v_path_mingw == <<"/", "M", "i", "n", "G", "W", "6", "4", "/", "b", "i", "n">>
v_exepath_git == <<"C", ":", "\\", "G", "i", "t">>
v_exe_unix == <<"/", "u", "s", "r", "/", "b", "i", "n", "/", "p", "y", "t", "h", "o", "n", "3">>
v_exe_win == <<"C", ":", "\\", "p", "y", "\\", "p", "y", "t", "h", "o", "n", ".", "e", "x", "e">>
v_exe_drive == <<"c", ":", "/", "p", "y", "/", "p", "y", "t", "h", "o", "n">>
v_exe_cygwin == <<"/", "C", "y", "g", "w", "i", "n", "/", "p", "y", "t", "h", "o", "n">>
v_term_vscode == <<"V", "S", "C", "o", "d", "e">>
v_wt == <<"7", "f", "3", "a">>
v_jetbrains == <<"J", "e", "t", "B", "r", "a", "i", "n", "s">>
v_enc_utf8 == <<"U", "T", "F", "-", "8">>
v_enc_cp1252 == <<"c", "p", "1", "2", "5", "2">>
v_lang_utf8 == <<"e", "n", "_", "U", "S", ".", "U", "T", "F", "-", "8">>
v_lang_utf8_lower == <<"C", ".", "u", "t", "f", "8">>
v_lang_c == <<"C">>
v_sh_bash == <<"/", "b", "i", "n", "/", "b", "a", "s", "h">>
v_sh_zsh == <<"/", "B", "I", "N", "/", "Z", "S", "H">>
v_sh_fish == <<"/", "u", "s", "r", "/", "b", "i", "n", "/", "f", "i", "s", "h">>
v_one == <<"1">>
v_zero == <<"0">>

(* ---------------------------------------------------------------------- *)
(* EnvironmentDetector.  e is os.environ; h is what the host reports:     *)
(*   h.system       platform.system()                                     *)
(*   h.executable   sys.executable                                        *)
(*   h.proc_version /proc/version: [exists, readable, content]            *)
(*   h.cygdrive     os.path.exists("/cygdrive")                           *)
(*   h.locale       locale.getlocale()[1]: [kind |-> "raise"],            *)
(*                  [kind |-> "none"] or [kind |-> "enc", enc |-> s]      *)
(* ---------------------------------------------------------------------- *)

\* The read of /proc/version is attempted only when the file exists; a
\* successful read returns from the function there, and only a failed read
\* (the bare except) or a missing file falls through to the variables.
_detect_wsl(e, h) ==
    IF h.proc_version.exists /\ h.proc_version.readable
    THEN Contains(s_microsoft, Lower(h.proc_version.content))
    ELSE "WSL_DISTRO_NAME" \in DOMAIN e \/ "WSL_INTEROP" \in DOMAIN e

_detect_mingw(e) ==
    \/ "MSYSTEM" \in DOMAIN e
    \/ Contains(s_MINGW, Get(e, "MSYSTEM"))
    \/ Contains(s_mingw_dir, Lower(Get(e, "PATH")))

_detect_cygwin(e, h) ==
    \/ "CYGWIN" \in DOMAIN e
    \/ h.cygdrive
    \/ Contains(s_cygwin_dir, Lower(h.executable))

_detect_git_bash(e) ==
    /\ Contains(s_MINGW, Get(e, "MSYSTEM"))
    /\ Contains(s_Git, Get(e, "EXEPATH"))

_detect_terminal(self, e) ==
    IF Contains(s_vscode, Lower(Get(e, "TERM_PROGRAM"))) THEN s_vscode
    ELSE IF Get(e, "WT_SESSION") # <<>> THEN s_windows_terminal
    ELSE IF "ConEmu" \in DOMAIN e THEN s_conemu
    ELSE IF Get(e, "TERMINAL_EMULATOR") # <<>> THEN Lower(Get(e, "TERMINAL_EMULATOR"))
    ELSE IF self.is_mingw \/ self.is_git_bash THEN s_mintty
    ELSE s_unknown

_detect_emoji_support(self, e, h) ==
    IF self.terminal_type \in {s_windows_terminal, s_vscode} THEN TRUE
    ELSE IF h.locale.kind = "enc" /\ h.locale.enc # <<>>
            /\ Contains(s_utf, Lower(h.locale.enc)) THEN TRUE
    ELSE IF Contains(s_UTF8, Get(e, "LANG"))
            \/ Contains(s_utf8, Lower(Get(e, "LANG"))) THEN TRUE
    ELSE FALSE

\* "\\" in sys.executable or re.match(r"^[A-Za-z]:", sys.executable)
_detect_python_type(h) ==
    IF \/ Contains(s_backslash, h.executable)
       \/ (Len(h.executable) >= 2 /\ IsLetter(h.executable[1]) /\ h.executable[2] = ":")
    THEN "windows"
    ELSE "unix"

\* Mutant: the emulation layers are looked at before the WSL rule.
_detect_actual_shell_layers_first(self, e) ==
    IF self.is_mingw \/ self.is_git_bash \/ self.is_cygwin THEN "bash"
    ELSE IF self.is_wsl /\ self.python_type = "windows" THEN "wsl_from_windows"
    ELSE IF self.os_type = s_windows
            /\ ~(self.is_wsl \/ self.is_mingw \/ self.is_cygwin)
         THEN (IF "PSModulePath" \in DOMAIN e THEN "powershell" ELSE "cmd")
    ELSE LET shell_env == Lower(Get(e, "SHELL"))
         IN IF Contains(s_bash, shell_env) THEN "bash"
            ELSE IF Contains(s_zsh, shell_env) THEN "zsh"
            ELSE IF Contains(s_fish, shell_env) THEN "fish"
            ELSE "bash"

\* Mutant: the native Windows rule without its guard on the flags.
_detect_actual_shell_unguarded(self, e) ==
    IF self.is_wsl /\ self.python_type = "windows" THEN "wsl_from_windows"
    ELSE IF self.os_type = s_windows
         THEN (IF "PSModulePath" \in DOMAIN e THEN "powershell" ELSE "cmd")
    ELSE IF self.is_mingw \/ self.is_git_bash \/ self.is_cygwin THEN "bash"
    ELSE LET shell_env == Lower(Get(e, "SHELL"))
         IN IF Contains(s_bash, shell_env) THEN "bash"
            ELSE IF Contains(s_zsh, shell_env) THEN "zsh"
            ELSE IF Contains(s_fish, shell_env) THEN "fish"
            ELSE "bash"

\* self carries os_type, is_wsl, is_mingw, is_git_bash, is_cygwin, python_type
_detect_actual_shell(self, e) ==
    IF self.is_wsl /\ self.python_type = "windows" THEN "wsl_from_windows"
    ELSE IF self.is_mingw \/ self.is_git_bash \/ self.is_cygwin THEN "bash"
    ELSE IF self.os_type = s_windows
            /\ ~(self.is_wsl \/ self.is_mingw \/ self.is_cygwin)
         THEN (IF "PSModulePath" \in DOMAIN e THEN "powershell" ELSE "cmd")
    ELSE LET shell_env == Lower(Get(e, "SHELL"))
         IN IF Contains(s_bash, shell_env) THEN "bash"
            ELSE IF Contains(s_zsh, shell_env) THEN "zsh"
            ELSE IF Contains(s_fish, shell_env) THEN "fish"
            ELSE "bash"

\* __init__: the probes in the order of the assignments
EnvironmentDetector(e, h) ==
    LET flags == [is_mingw |-> _detect_mingw(e), is_git_bash |-> _detect_git_bash(e)]
        terminal_type == _detect_terminal(flags, e)
        basics == [os_type     |-> Lower(h.system),
                   is_wsl      |-> _detect_wsl(e, h),
                   is_mingw    |-> flags.is_mingw,
                   is_cygwin   |-> _detect_cygwin(e, h),
                   is_git_bash |-> flags.is_git_bash,
                   python_type |-> _detect_python_type(h)]
    IN [os_type        |-> basics.os_type,
        is_wsl         |-> basics.is_wsl,
        is_mingw       |-> basics.is_mingw,
        is_cygwin      |-> basics.is_cygwin,
        is_git_bash    |-> basics.is_git_bash,
        terminal_type  |-> terminal_type,
        supports_emoji |-> _detect_emoji_support([terminal_type |-> terminal_type], e, h),
        python_type    |-> basics.python_type,
        actual_shell   |-> _detect_actual_shell(basics, e)]

(* ---------------------------------------------------------------------- *)
(* Subprocesses.  A record of subprocesses is one call the program made:  *)
(* its role (probe, wslpath, installer), its argv, the environment it was *)
(* given and how it ended.                                                *)
(* ---------------------------------------------------------------------- *)
ProbeOutcomes == {"zero", "nonzero", "raise"}

Probe(cmd, e, outcome) ==
    [role |-> "probe", argv |-> cmd, env |-> e, outcome |-> outcome]

\* r gives the outcome of each version query: returncode 0, a nonzero
\* returncode, or an exception (timeout, command not found).
check_rust_installed(e, h, r) ==
    LET rustc == Probe(<<"rustc", "--version">>, e, r.rustc)
        cargo == Probe(<<"cargo", "--version">>, e, r.cargo)
        wsl   == Probe(<<"wsl", "rustc", "--version">>, e, r.wsl)
        env   == EnvironmentDetector(e, h)
    IN IF r.rustc = "zero"
       THEN [result |-> TRUE, calls |-> <<rustc>>, detectors |-> <<>>]
       ELSE IF r.cargo = "zero"
       THEN [result |-> TRUE, calls |-> <<rustc, cargo>>, detectors |-> <<>>]
       ELSE IF env.is_wsl /\ env.python_type = "windows"
       THEN [result |-> (r.wsl = "zero"), calls |-> <<rustc, cargo, wsl>>,
             detectors |-> <<env>>]
       ELSE [result |-> FALSE, calls |-> <<rustc, cargo>>, detectors |-> <<env>>]

(* ---------------------------------------------------------------------- *)
(* run_installer                                                          *)
(* ---------------------------------------------------------------------- *)
InstallSh  == "script_dir/install.sh"
InstallPs1 == "script_dir/install.ps1"
WslInstallSh == "/mnt/script_dir/install.sh"

\* How the installer child ends: it exits with a code, a signal kills it
\* (returncode -sig), or it cannot be started and subprocess.call raises.
ChildOutcomes ==
    {[kind |-> "exit", code |-> c] : c \in {0, 3}}
        \cup {[kind |-> "signal", sig |-> 9], [kind |-> "spawn_error"]}

returncode(child) == IF child.kind = "exit" THEN child.code ELSE 0 - child.sig

\* What run_installer meets on its way: the files of the script directory,
\* how the wslpath call and the chmod end (for the branches that make
\* them), and how the installer child ends.
Oracles(branch) ==
    [files   : SUBSET {InstallSh, InstallPs1},
     wslpath : IF branch = "wsl" THEN {"path", "empty", "raise"} ELSE {"unused"},
     chmod   : IF branch \in {"layer", "unix"} THEN {"ok", "error"} ELSE {"unused"},
     child   : ChildOutcomes]

Return(calls, ch, e, out, value) ==
    [calls |-> calls, chmods |-> ch, environ |-> e, out |-> out,
     result |-> [kind |-> "return", value |-> value]]

Raise(calls, ch, e) ==
    [calls |-> calls, chmods |-> ch, environ |-> e, out |-> <<>>,
     result |-> [kind |-> "raise"]]

\* Mutant: a failing child is reported as plain failure, 1.
Call_remapped(before, ch, e, command, env, child) ==
    LET c == [role |-> "installer", argv |-> command, env |-> env, outcome |-> child]
    IN IF child.kind = "spawn_error"
       THEN Raise(before \o <<c>>, ch, e)
       ELSE Return(before \o <<c>>, ch, e, <<>>,
                   IF returncode(child) = 0 THEN 0 ELSE 1)

\* subprocess.call(command, env=env): the child's returncode, or the
\* exception of a child that could not be started
Call(before, ch, e, command, env, child) ==
    LET c == [role |-> "installer", argv |-> command, env |-> env, outcome |-> child]
    IN IF child.kind = "spawn_error"
       THEN Raise(before \o <<c>>, ch, e)
       ELSE Return(before \o <<c>>, ch, e, <<>>, returncode(child))

\* Mutant: env = os.environ, without the copy.
EmojiEnv_in_place(e, supports_emoji) ==
    LET env == [k \in DOMAIN e \cup {"INSTALLER_EMOJI_SUPPORT"} |->
                   IF k = "INSTALLER_EMOJI_SUPPORT"
                   THEN (IF supports_emoji THEN v_one ELSE v_zero)
                   ELSE e[k]]
    IN [parent |-> env, child |-> env]

\* env = os.environ.copy(); env["INSTALLER_EMOJI_SUPPORT"] = "1" or "0":
\* the parent's environment after the two statements, and the child's
EmojiEnv(e, supports_emoji) ==
    [parent |-> e,
     child  |-> [k \in DOMAIN e \cup {"INSTALLER_EMOJI_SUPPORT"} |->
                    IF k = "INSTALLER_EMOJI_SUPPORT"
                    THEN (IF supports_emoji THEN v_one ELSE v_zero)
                    ELSE e[k]]]

\* ps_command, lines 253-259
PsCommand(env_detector, a) ==
    <<"powershell", "-ExecutionPolicy", "Bypass", "-File", InstallPs1>>
        \o (IF ~env_detector.supports_emoji THEN <<"-NoEmoji">> ELSE <<>>)
        \o a

ScriptMissing(e, name) == Return(<<>>, <<>>, e, <<name>>, 1)

\* which of the four branches of the if/elif chain is taken
Branch(env_detector) ==
    IF env_detector.actual_shell = "wsl_from_windows" THEN "wsl"
    ELSE IF env_detector.is_mingw \/ env_detector.is_git_bash \/ env_detector.is_cygwin
         THEN "layer"
    ELSE IF env_detector.actual_shell \in {"powershell", "cmd"} THEN "windows"
    ELSE "unix"

\* lines 203-220
RunWsl(env_detector, a, e, o) ==
    IF InstallSh \notin o.files
    THEN ScriptMissing(e, "Error: install.sh not found")
    ELSE LET wslpath == [role |-> "wslpath", argv |-> <<"wsl", "wslpath", InstallSh>>,
                         env |-> e, outcome |-> o.wslpath]
             wsl_path == IF o.wslpath = "path" THEN WslInstallSh ELSE ""
             env == EmojiEnv(e, env_detector.supports_emoji)
         IN IF o.wslpath = "raise"
            THEN Raise(<<wslpath>>, <<>>, e)
            ELSE Call(<<wslpath>>, <<>>, env.parent,
                      <<"wsl", "bash", wsl_path>> \o a, env.child, o.child)

\* lines 224-243: a failing chmod is caught and ignored
RunLayer(env_detector, a, e, o) ==
    IF InstallSh \notin o.files
    THEN ScriptMissing(e, "Error: install.sh not found")
    ELSE LET env == EmojiEnv(e, env_detector.supports_emoji)
         IN Call(<<>>, <<o.chmod>>, env.parent,
                 <<"bash", InstallSh>> \o a, env.child, o.child)

\* Mutant: without install.ps1, the bash script is tried instead.
RunWindows_fallback(env_detector, a, e, o) ==
    IF InstallPs1 \notin o.files
    THEN (IF InstallSh \in o.files
          THEN Call(<<>>, <<>>, e, <<"bash", InstallSh>> \o a, e, o.child)
          ELSE ScriptMissing(e, "Error: install.ps1 not found"))
    ELSE Call(<<>>, <<>>, e, PsCommand(env_detector, a), e, o.child)

\* lines 247-261: no env argument, the child inherits os.environ
RunWindows(env_detector, a, e, o) ==
    IF InstallPs1 \notin o.files
    THEN ScriptMissing(e, "Error: install.ps1 not found")
    ELSE Call(<<>>, <<>>, e, PsCommand(env_detector, a), e, o.child)

\* lines 265-281: os.chmod is not guarded, its exception leaves run_installer
RunUnix(env_detector, a, e, o) ==
    IF InstallSh \notin o.files
    THEN ScriptMissing(e, "Error: install.sh not found")
    ELSE IF o.chmod = "error"
    THEN Raise(<<>>, <<o.chmod>>, e)
    ELSE LET env == EmojiEnv(e, env_detector.supports_emoji)
         IN Call(<<>>, <<o.chmod>>, env.parent,
                 <<"bash", InstallSh>> \o a, env.child, o.child)

run_installer(env_detector, a, e, o) ==
    CASE Branch(env_detector) = "wsl"     -> RunWsl(env_detector, a, e, o)
      [] Branch(env_detector) = "layer"   -> RunLayer(env_detector, a, e, o)
      [] Branch(env_detector) = "windows" -> RunWindows(env_detector, a, e, o)
      [] OTHER                            -> RunUnix(env_detector, a, e, o)

(* ---------------------------------------------------------------------- *)
(* Inputs                                                                 *)
(* ---------------------------------------------------------------------- *)
MaxArgs == 2

Tokens == {"--debug", "--help", "-h", "--all"}

ArgLists == UNION {[1..n -> Tokens] : n \in 0..MaxArgs}

NoEnv == [k \in {} |-> <<>>]

ProcVersions ==
    {[exists |-> FALSE, readable |-> FALSE, content |-> <<>>],
     [exists |-> TRUE,  readable |-> FALSE, content |-> <<>>],
     [exists |-> TRUE,  readable |-> TRUE,  content |-> v_proc_wsl],
     [exists |-> TRUE,  readable |-> TRUE,  content |-> v_proc_native]}

Locales ==
    {[kind |-> "raise"], [kind |-> "none"],
     [kind |-> "enc", enc |-> v_enc_utf8], [kind |-> "enc", enc |-> v_enc_cp1252]}

DefaultHost ==
    [system |-> v_Linux, executable |-> v_exe_unix,
     proc_version |-> [exists |-> FALSE, readable |-> FALSE, content |-> <<>>],
     cygdrive |-> FALSE, locale |-> [kind |-> "none"]]

\* one variable, absent or with one of the values
Var(name, values) == {NoEnv} \cup {name :> v : v \in values}

\* The inputs that decide the dispatch, in every combination.
DispatchHosts ==
    {[environ |-> layer @@ shell @@ emoji,
      host |-> [DefaultHost EXCEPT !.system = sys, !.executable = exe,
                                   !.proc_version = pv]] :
        sys \in {v_Linux, v_Windows},
        exe \in {v_exe_unix, v_exe_win},
        pv \in {p \in ProcVersions : p.readable \/ ~p.exists},
        layer \in {NoEnv, ("MSYSTEM" :> v_MINGW64) @@ ("EXEPATH" :> v_exepath_git),
                   "CYGWIN" :> v_one},
        shell \in Var("PSModulePath", {v_one})
                    \cup Var("SHELL", {v_sh_zsh, v_sh_fish}),
        emoji \in {NoEnv, "INSTALLER_EMOJI_SUPPORT" :> v_one,
                   ("LANG" :> v_lang_utf8) @@ ("INSTALLER_EMOJI_SUPPORT" :> v_zero)}}

\* The inputs of _detect_wsl and _detect_python_type, in every combination.
WslHosts ==
    {[environ |-> distro @@ interop @@ ("SHELL" :> v_sh_bash),
      host |-> [DefaultHost EXCEPT !.executable = exe, !.proc_version = pv]] :
        exe \in {v_exe_unix, v_exe_drive},
        pv \in ProcVersions,
        distro \in Var("WSL_DISTRO_NAME", {v_one}),
        interop \in Var("WSL_INTEROP", {v_one})}

\* The inputs of _detect_mingw, _detect_git_bash and _detect_cygwin.
LayerHosts ==
    {[environ |-> msystem @@ path @@ exepath @@ cygwin,
      host |-> [DefaultHost EXCEPT !.executable = x.exe, !.cygdrive = x.cygdrive]] :
        msystem \in Var("MSYSTEM", {v_MINGW64, v_MSYS}),
        path \in Var("PATH", {v_path_mingw}),
        exepath \in Var("EXEPATH", {v_exepath_git}),
        cygwin \in Var("CYGWIN", {v_one}),
        x \in {[exe |-> v_exe_unix, cygdrive |-> FALSE],
               [exe |-> v_exe_unix, cygdrive |-> TRUE],
               [exe |-> v_exe_cygwin, cygdrive |-> FALSE]}}

\* The inputs of _detect_terminal and _detect_emoji_support.
TerminalHosts ==
    {[environ |-> term @@ wt @@ conemu @@ emulator @@ lang,
      host |-> [DefaultHost EXCEPT !.locale = loc]] :
        term \in Var("TERM_PROGRAM", {v_term_vscode}),
        wt \in Var("WT_SESSION", {v_wt}),
        conemu \in Var("ConEmu", {v_one}),
        emulator \in Var("TERMINAL_EMULATOR", {v_jetbrains}),
        lang \in Var("LANG", {v_lang_utf8_lower, v_lang_c}),
        loc \in Locales \ {[kind |-> "none"]}}

Hosts == DispatchHosts \cup WslHosts \cup LayerHosts \cup TerminalHosts

(* ---------------------------------------------------------------------- *)
(* main                                                                   *)
(* ---------------------------------------------------------------------- *)
Init ==
    /\ \E x \in Hosts : environ = x.environ /\ host = x.host
    /\ argv \in ArgLists
    /\ args = <<>>
    /\ pc = "main"
    /\ detectors = <<>>
    /\ subprocesses = <<>>
    /\ chmods = <<>>
    /\ script_dir = <<>>
    /\ stdout = <<>>
    /\ returned = <<>>
    /\ exit_status = <<>>

\* lines 285-288: args = sys.argv[1:]; env_detector = EnvironmentDetector()
main_start ==
    /\ pc = "main"
    /\ args' = argv
    /\ detectors' = <<EnvironmentDetector(environ, host)>>
    /\ pc' = "debug"
    /\ UNCHANGED <<environ, host, argv, subprocesses, chmods, script_dir, stdout,
                   returned, exit_status>>

\* lines 291-298: args after the --debug block
StripDebug(a) == IF InList("--debug", a) THEN ListRemove(a, "--debug") ELSE a

main_debug ==
    /\ pc = "debug"
    /\ args' = StripDebug(args)
    /\ stdout' = IF InList("--debug", args)
                 THEN stdout \o <<"Environment Detection Results:">>
                 ELSE stdout
    /\ pc' = "help"
    /\ UNCHANGED <<environ, host, argv, detectors, subprocesses, chmods, script_dir,
                   returned, exit_status>>

\* line 333, sys.exit(main()): the status the parent of this process sees
\* is the low byte of the value main returns.  Nothing happens between a
\* return of main and the exit, so each returning step below also sets
\* exit_status.
ExitStatus(value) == value % 256

\* lines 301-317
HelpRequested(a) == InList("--help", a) \/ InList("-h", a)

main_help ==
    /\ pc = "help"
    /\ IF HelpRequested(args)
       THEN /\ stdout' = stdout \o <<"Universal Rust Development Tools Installer">>
            /\ returned' = <<0>>
            /\ exit_status' = <<ExitStatus(0)>>
            /\ pc' = "exited"
       ELSE /\ pc' = "rust_check"
            /\ UNCHANGED <<stdout, returned, exit_status>>
    /\ UNCHANGED <<environ, host, argv, args, detectors, subprocesses, chmods,
                   script_dir>>

\* lines 320-327: what main does with the answer of check_rust_installed
RustHint(env_detector) ==
    IF env_detector.os_type = s_windows \/ env_detector.python_type = "windows"
    THEN "For Windows: https://win.rustup.rs"
    ELSE "Run: curl --proto '=https' --tlsv1.2 -sSf https://sh.rustup.rs | sh"

\* Mutant: the answer of the toolchain check is not acted on.
AfterRustCheck_ignored(installed) == [kind |-> "continue"]

AfterRustCheck(installed) ==
    IF ~installed THEN [kind |-> "return", value |-> 1] ELSE [kind |-> "continue"]

main_rust_check ==
    /\ pc = "rust_check"
    /\ \E r \in [rustc : ProbeOutcomes, cargo : ProbeOutcomes, wsl : ProbeOutcomes] :
        LET check == check_rust_installed(environ, host, r)
            next  == AfterRustCheck(check.result)
        IN /\ subprocesses' = subprocesses \o check.calls
           /\ detectors' = detectors \o check.detectors
           /\ IF next.kind = "return"
              THEN /\ stdout' = stdout \o <<"Error: Rust is not installed!",
                                            RustHint(detectors[1])>>
                   /\ returned' = <<next.value>>
                   /\ exit_status' = <<ExitStatus(next.value)>>
                   /\ pc' = "exited"
              ELSE /\ pc' = "run_installer"
                   /\ UNCHANGED <<stdout, returned, exit_status>>
    /\ UNCHANGED <<environ, host, argv, args, chmods, script_dir>>

\* lines 330 and 333: sys.exit(run_installer(env_detector, args)); an
\* exception that leaves main ends the interpreter with status 1
main_run_installer ==
    /\ pc = "run_installer"
    /\ \E o \in Oracles(Branch(detectors[1])) :
        LET r == run_installer(detectors[1], args, environ, o)
        IN /\ script_dir' = <<o.files>>
           /\ subprocesses' = subprocesses \o r.calls
           /\ chmods' = chmods \o r.chmods
           /\ environ' = r.environ
           /\ stdout' = stdout \o r.out
           /\ IF r.result.kind = "return"
              THEN /\ returned' = <<r.result.value>>
                   /\ exit_status' = <<ExitStatus(r.result.value)>>
              ELSE /\ returned' = returned
                   /\ exit_status' = <<1>>
           /\ pc' = "exited"
    /\ UNCHANGED <<host, argv, args, detectors>>

Next ==
    \/ main_start
    \/ main_debug
    \/ main_help
    \/ main_rust_check
    \/ main_run_installer

Spec == Init /\ [][Next]_vars

(* ---------------------------------------------------------------------- *)
(* _detect_actual_shell on its own: every combination of the fields it    *)
(* reads, also those no environment produces.                             *)
(* ---------------------------------------------------------------------- *)
ShellInputs ==
    [os_type     : {Lower(v_Linux), Lower(v_Windows), Lower(v_Darwin)},
     is_wsl      : BOOLEAN,
     is_mingw    : BOOLEAN,
     is_git_bash : BOOLEAN,
     is_cygwin   : BOOLEAN,
     python_type : {"windows", "unix"}]

ShellEnvirons ==
    {ps @@ sh : ps \in Var("PSModulePath", {v_one}),
                sh \in Var("SHELL", {v_sh_bash, v_sh_zsh, v_sh_fish, v_sh_sh, v_sh_both})}

InitShell ==
    /\ environ \in ShellEnvirons
    /\ host = DefaultHost
    /\ argv = <<>>
    /\ args = <<>>
    /\ pc = "shell"
    /\ detectors \in {<<self>> : self \in ShellInputs}
    /\ subprocesses = <<>>
    /\ chmods = <<>>
    /\ script_dir = <<>>
    /\ stdout = <<>>
    /\ returned = <<>>
    /\ exit_status = <<>>

\* line 28: self.actual_shell = self._detect_actual_shell()
resolve_shell ==
    /\ pc = "shell"
    /\ detectors' = <<[actual_shell |-> _detect_actual_shell(detectors[1], environ)]
                        @@ detectors[1]>>
    /\ pc' = "shell_done"
    /\ UNCHANGED <<environ, host, argv, args, subprocesses, chmods, script_dir,
                   stdout, returned, exit_status>>

NextShell == resolve_shell

SpecShell == InitShell /\ [][NextShell]_vars

(* ---------------------------------------------------------------------- *)
(* Properties                                                             *)
(* ---------------------------------------------------------------------- *)
Installers == {i \in DOMAIN subprocesses : subprocesses[i].role = "installer"}
Probes     == {i \in DOMAIN subprocesses : subprocesses[i].role = "probe"}

\* the child was started: subprocess.call did not raise
Started(c) == c.role = "installer" /\ c.outcome.kind # "spawn_error"

AnyLayer(d) == d.is_mingw \/ d.is_git_bash \/ d.is_cygwin

\* C1: the argument list forwarded to the installer script never contains
\* --debug, wherever and however often --debug occurs in the arguments.
C1_DebugNeverForwarded ==
    \A i \in Installers :
        Started(subprocesses[i]) => ~InList("--debug", subprocesses[i].argv)

\* C2: when every version query that check_rust_installed attempts fails
\* (nonzero, timeout or exception), main returns 1, the process exits with
\* status 1, and no installer script is invoked, nor looked for, nor is
\* the wsl bridge asked for its path.
ToolchainCheckFailed ==
    /\ Probes # {}
    /\ \A i \in Probes : subprocesses[i].outcome # "zero"

C2_NoToolchainNoInstaller ==
    ToolchainCheckFailed =>
        /\ pc = "exited"
        /\ returned = <<1>>
        /\ exit_status = <<1>>
        /\ \A i \in DOMAIN subprocesses : subprocesses[i].role = "probe"
        /\ script_dir = <<>>

C2_Witness ==
    /\ ToolchainCheckFailed
    /\ Cardinality(Probes) = 3
    /\ \E i \in Probes : subprocesses[i].outcome = "raise"
    /\ \E i \in Probes : subprocesses[i].outcome = "nonzero"
    /\ pc = "exited"

\* C3: _detect_actual_shell returns the target of the first matching rule:
\* (1) WSL and a Windows interpreter give wsl_from_windows, also when a
\* layer is detected; (2) else any layer gives bash; (3) else os windows
\* with none of the subsystem and layer flags gives powershell when
\* PSModulePath is present and cmd otherwise; (4) else bash, zsh or fish
\* from SHELL, bash when none is named.
Rule1(s) == s.is_wsl /\ s.python_type = "windows"
Rule2(s) == s.is_mingw \/ s.is_git_bash \/ s.is_cygwin
Rule3(s) ==
    /\ s.os_type = s_windows
    /\ ~s.is_wsl /\ ~s.is_mingw /\ ~s.is_git_bash /\ ~s.is_cygwin

ShellNamed(e) ==
    LET shell == Lower(Get(e, "SHELL"))
    IN CASE Contains(s_bash, shell) -> "bash"
         [] ~Contains(s_bash, shell) /\ Contains(s_zsh, shell) -> "zsh"
         [] ~Contains(s_bash, shell) /\ ~Contains(s_zsh, shell)
              /\ Contains(s_fish, shell) -> "fish"
         [] OTHER -> "bash"

TargetByPrecedence(s, e) ==
    CASE Rule1(s) -> "wsl_from_windows"
      [] ~Rule1(s) /\ Rule2(s) -> "bash"
      [] ~Rule1(s) /\ ~Rule2(s) /\ Rule3(s) ->
            (IF "PSModulePath" \in DOMAIN e THEN "powershell" ELSE "cmd")
      [] OTHER -> ShellNamed(e)

C3_ShellPrecedence ==
    pc = "shell_done" =>
        detectors[1].actual_shell = TargetByPrecedence(detectors[1], environ)

C3_Witness ==
    /\ pc = "shell_done"
    /\ detectors[1].is_wsl /\ detectors[1].python_type = "windows"
    /\ detectors[1].is_cygwin /\ detectors[1].is_mingw
    /\ detectors[1].os_type = s_windows
    /\ detectors[1].actual_shell = "wsl_from_windows"

\* C4: the script and the invocation form follow from actual_shell alone,
\* as the dispatch table says: wsl_from_windows runs install.sh through
\* `wsl bash`, powershell and cmd run install.ps1 through `powershell
\* -ExecutionPolicy Bypass -File`, every other target runs install.sh with
\* `bash`; the flag-based branch is taken only with target bash, and
\* install.ps1 is never chosen while a layer or subsystem flag is set.
TableForm(shell, command) ==
    CASE shell = "wsl_from_windows" ->
            /\ Len(command) >= 3
            /\ SubSeq(command, 1, 2) = <<"wsl", "bash">>
            /\ command[3] \in {WslInstallSh, ""}
      [] shell \in {"powershell", "cmd"} ->
            /\ Len(command) >= 5
            /\ SubSeq(command, 1, 5) =
                 <<"powershell", "-ExecutionPolicy", "Bypass", "-File", InstallPs1>>
      [] OTHER ->
            /\ Len(command) >= 2
            /\ SubSeq(command, 1, 2) = <<"bash", InstallSh>>

TableScript(shell) ==
    IF shell \in {"powershell", "cmd"} THEN InstallPs1 ELSE InstallSh

C4_DispatchByShellTarget ==
    detectors # <<>> =>
        LET d == detectors[1]
        IN /\ (AnyLayer(d) /\ d.actual_shell # "wsl_from_windows"
                   => d.actual_shell = "bash")
           /\ (d.actual_shell \in {"powershell", "cmd"}
                   => ~d.is_wsl /\ ~AnyLayer(d))
           /\ \A i \in Installers :
                 TableForm(d.actual_shell, subprocesses[i].argv)
           /\ \A i \in DOMAIN stdout :
                 /\ stdout[i] = "Error: install.sh not found"
                        => TableScript(d.actual_shell) = InstallSh
                 /\ stdout[i] = "Error: install.ps1 not found"
                        => TableScript(d.actual_shell) = InstallPs1

C4_Witness ==
    /\ detectors # <<>>
    /\ detectors[1].os_type = s_windows
    /\ detectors[1].is_git_bash
    /\ detectors[1].is_wsl
    /\ detectors[1].actual_shell = "bash"
    /\ \E i \in Installers : Started(subprocesses[i])

\* C5: when the script of the resolved target does not exist, run_installer
\* prints an error naming it and returns 1; it starts no subprocess, touches
\* no file mode and does not turn to the other script, even if that exists.
MissingMessage(script) ==
    IF script = InstallPs1 THEN "Error: install.ps1 not found"
    ELSE "Error: install.sh not found"

RequiredScriptMissing ==
    /\ script_dir # <<>>
    /\ TableScript(detectors[1].actual_shell) \notin script_dir[1]

C5_MissingScriptNoFallback ==
    RequiredScriptMissing =>
        /\ pc = "exited"
        /\ returned = <<1>>
        /\ exit_status = <<1>>
        /\ \A i \in DOMAIN subprocesses : subprocesses[i].role = "probe"
        /\ chmods = <<>>
        /\ stdout # <<>>
        /\ stdout[Len(stdout)] = MissingMessage(TableScript(detectors[1].actual_shell))

C5_Witness ==
    /\ RequiredScriptMissing
    /\ script_dir[1] = {InstallSh}
    /\ detectors[1].actual_shell = "cmd"
    /\ pc = "exited"

\* C6: when run_installer starts an installer child, main returns that
\* child's returncode and the process exits with the child's exit code;
\* there is exactly one installer call (no retry).
C6_ChildCodePropagated ==
    \A i \in Installers :
        Started(subprocesses[i]) =>
            LET child == subprocesses[i].outcome
            IN /\ pc = "exited"
               /\ Cardinality(Installers) = 1
               /\ child.kind = "exit" =>
                     returned = <<child.code>> /\ exit_status = <<child.code>>
               /\ child.kind = "signal" => returned = <<0 - child.sig>>

C6_Witness ==
    /\ pc = "exited"
    /\ \E i \in Installers :
          /\ subprocesses[i].outcome = [kind |-> "exit", code |-> 3]
          /\ SubSeq(subprocesses[i].argv, 1, 2) = <<"wsl", "bash">>
    /\ returned = <<3>>

\* C7: for the POSIX targets the child's environment is the parent's with
\* INSTALLER_EMOJI_SUPPORT set to "1" when supports_emoji and "0" otherwise,
\* and the parent's environment stays as it was; for the Windows targets
\* -NoEmoji is on the command line exactly when supports_emoji is false,
\* right after the script and before the forwarded arguments, and the
\* child inherits the parent's environment with nothing set.
\* The environment the process started with is the one its first
\* subprocess, a version query, inherited.
ParentEnviron == subprocesses[1].env

C7_EmojiFlagTransport ==
    \A i \in Installers :
        LET d == detectors[1]
            c == subprocesses[i]
        IN /\ environ = ParentEnviron
           /\ IF d.actual_shell \in {"powershell", "cmd"}
              THEN /\ c.env = ParentEnviron
                   /\ InList("-NoEmoji", c.argv) <=> ~d.supports_emoji
                   /\ ~d.supports_emoji =>
                        /\ c.argv[6] = "-NoEmoji"
                        /\ SubSeq(c.argv, 7, Len(c.argv)) = args
                   /\ d.supports_emoji => SubSeq(c.argv, 6, Len(c.argv)) = args
              ELSE /\ DOMAIN c.env = DOMAIN ParentEnviron \cup {"INSTALLER_EMOJI_SUPPORT"}
                   /\ c.env["INSTALLER_EMOJI_SUPPORT"] =
                        (IF d.supports_emoji THEN <<"1">> ELSE <<"0">>)
                   /\ \A k \in DOMAIN ParentEnviron \ {"INSTALLER_EMOJI_SUPPORT"} :
                        c.env[k] = ParentEnviron[k]

C7_Witness ==
    /\ pc = "exited"
    /\ \E i \in Installers :
          /\ Started(subprocesses[i])
          /\ SubSeq(subprocesses[i].argv, 1, 2) = <<"bash", InstallSh>>
          /\ subprocesses[i].env["INSTALLER_EMOJI_SUPPORT"] = <<"0">>
    /\ "INSTALLER_EMOJI_SUPPORT" \in DOMAIN environ
    /\ environ["INSTALLER_EMOJI_SUPPORT"] = <<"1">>
    /\ ~detectors[1].supports_emoji

\* C8: wherever install.sh is run directly with bash, a failing chmod is
\* ignored and the installer is still invoked.
C8_ChmodFailureIgnored ==
    (pc = "exited" /\ InList("error", chmods)) => Installers # {}

\* C9: _detect_wsl is true exactly when /proc/version exists and mentions
\* "microsoft", or WSL_DISTRO_NAME is present, or WSL_INTEROP is present.
WslByRule(e, h) ==
    \/ /\ h.proc_version.exists /\ h.proc_version.readable
       /\ Contains(s_microsoft, Lower(h.proc_version.content))
    \/ "WSL_DISTRO_NAME" \in DOMAIN e
    \/ "WSL_INTEROP" \in DOMAIN e

C9_WslDetection ==
    detectors # <<>> => (detectors[1].is_wsl <=> WslByRule(environ, host))

\* C10: the classification is computed once in a run: one
\* EnvironmentDetector is constructed, and the toolchain check and the
\* dispatcher use it.
C10_ClassifiedOnce == Len(detectors) <= 1
====
